---- MODULE Spec2Model ----
(***************************************************************************)
(* Provenance gathering of anemoi.utils.provenance.                        *)
(*                                                                         *)
(* Python strings are modelled as sequences of atoms: a path is a sequence *)
(* over "/", "a", "b" (and, after root substitution, "<", a scheme name    *)
(* and ">"); a dotted module name is a sequence of segments and "."; a     *)
(* version string is a sequence of characters.  An optional value (None or *)
(* a value) is the empty sequence or a one-element sequence.               *)
(***************************************************************************)
EXTENDS Naturals, Integers, Sequences, FiniteSets, TLC

VARIABLES
    sys_modules,    \* sys.modules: the names of the loaded modules
    modules,        \* the module objects: name -> [has_file, file, version]
    config_paths,   \* sysconfig.get_paths(): sequence of <<scheme, path>>
    fs_repos,       \* directories that are roots of a git repository -> state read outcome
    fs_missing,     \* paths that do not exist on disk
    fs_atime,       \* asset path -> st_atime of the file
    fs_peek,        \* what importing .checkpoint and calling peek does
    clock,          \* datetime.utcnow()
    calls_left,     \* calls of gather_provenance_info the caller still makes
    pc,             \* position inside gather_provenance_info
    full,           \* argument full of the running call
    assets,         \* argument assets of the running call
    versions,       \* module_versions: versions
    namespaces,     \* module_versions: namespaces
    paths,          \* module_versions: paths
    snapshot,       \* module_versions: the names sorted(sys.modules.items()) listed
    todo,           \* check_for_git: the (name, path) pairs not yet visited
    cand,           \* check_for_git: the (name, path) pair being visited
    path,           \* lookup_git_repo: path
    iters,          \* lookup_git_repo: iterations of the while loop so far
    repo,           \* check_for_git: repo (the directory Repo() accepted)
    git_versions,   \* check_for_git: versions
    log             \* the reports returned so far, with the mode of each call

vars == <<sys_modules, modules, config_paths, fs_repos, fs_missing, fs_atime,
          fs_peek, clock,
          calls_left, pc, full, assets, versions, namespaces, paths, snapshot, todo,
          cand, path, iters, repo, git_versions, log>>

(***************************************************************************)
(* Bounds                                                                  *)
(***************************************************************************)
MaxLen == 4          \* longest __file__ drawn for the free module
MaxCalls == 2        \* calls of gather_provenance_info in one process
MaxIters == 7        \* cap on the iterations of one repository ascent

(***************************************************************************)
(* Python string primitives                                                *)
(***************************************************************************)
startswith(s, p) ==
    /\ Len(s) >= Len(p)
    /\ SubSeq(s, 1, Len(p)) = p

Drop(s, n) == SubSeq(s, n + 1, Len(s))

\* str.replace(old, new): every non-overlapping occurrence, left to right
RECURSIVE replace(_, _, _)
replace(s, old, new) ==
    IF Len(s) < Len(old) \/ old = <<>> THEN s
    ELSE IF startswith(s, old) THEN new \o replace(Drop(s, Len(old)), old, new)
    ELSE <<Head(s)>> \o replace(Tail(s), old, new)

\* str.rfind("/") + 1
RECURSIVE rfind_sep(_)
rfind_sep(s) ==
    IF s = <<>> THEN 0
    ELSE IF s[Len(s)] = "/" THEN Len(s)
    ELSE rfind_sep(SubSeq(s, 1, Len(s) - 1))

RECURSIVE rstrip_sep(_)
rstrip_sep(s) ==
    IF s # <<>> /\ s[Len(s)] = "/" THEN rstrip_sep(SubSeq(s, 1, Len(s) - 1))
    ELSE s

AllSep(s) == \A i \in 1..Len(s) : s[i] = "/"

\* posixpath.dirname
dirname(p) ==
    LET head == SubSeq(p, 1, rfind_sep(p))
    IN  IF head # <<>> /\ ~AllSep(head) THEN rstrip_sep(head) ELSE head

\* posixpath.basename
basename(p) == Drop(p, rfind_sep(p))

\* posixpath.join(a, b) for two components
join(a, b) ==
    IF startswith(b, <<"/">>) THEN b
    ELSE IF a = <<>> \/ a[Len(a)] = "/" THEN a \o b
    ELSE a \o <<"/">> \o b

\* k.split(".")
RECURSIVE split(_)
split(k) ==
    IF \A i \in 1..Len(k) : k[i] # "." THEN <<k>>
    ELSE LET i == CHOOSE j \in 1..Len(k) :
                      k[j] = "." /\ \A h \in 1..(j - 1) : k[h] # "."
         IN  <<SubSeq(k, 1, i - 1)>> \o split(Drop(k, i))

(***************************************************************************)
(* module_versions: roots                                                  *)
(***************************************************************************)
\* lines 112-115: path -> name, the first name of a path wins
RECURSIVE roots_dict(_, _)
roots_dict(items, acc) ==
    IF items = <<>> THEN acc
    ELSE LET name == Head(items)[1]
             p    == Head(items)[2]
         IN  IF \E i \in 1..Len(acc) : acc[i][1] = p
             THEN roots_dict(Tail(items), acc)
             ELSE roots_dict(Tail(items), Append(acc, <<p, name>>))

\* sorted(..., key=len of path, reverse=True): stable, longest first
RECURSIVE sorted_roots(_, _)
sorted_roots(items, acc) ==
    IF items = <<>> THEN acc
    ELSE LET x == Head(items)
             k == Cardinality({i \in 1..Len(acc) : Len(acc[i][1]) >= Len(x[1])})
         IN  sorted_roots(Tail(items),
                          SubSeq(acc, 1, k) \o <<x>> \o Drop(acc, k))

\* lines 112-118
roots_of(get_paths) == sorted_roots(roots_dict(get_paths, <<>>), <<>>)

\* version, lines 73-74: every root in turn, replaced by its token
RECURSIVE substitute(_, _)
substitute(p, roots) ==
    IF roots = <<>> THEN p
    ELSE substitute(replace(p, Head(roots)[1], <<"<", Head(roots)[2], ">">>),
                    Tail(roots))

(***************************************************************************)
(* version                                                                 *)
(***************************************************************************)
StdlibToken == <<"<", "stdlib", ">">>
Ellipsis == <<".", ".", ".">>

Put(d, k, v) == [x \in DOMAIN d \cup {k} |-> IF x = k THEN v ELSE d[x]]

\* lines 70-77: the normalized path, None when there is no __file__
path_of(module, roots) ==
    IF module.has_file /\ module.file # <<>>
    THEN <<substitute(module.file[1], roots)>>
    ELSE <<>>

\* path_value with the SUMMARY branch reporting a token-form path as it is
path_value_token(p, f) ==
    IF f THEN <<p>>
    ELSE IF ~startswith(p, <<"<">>) THEN <<join(Ellipsis, basename(p))>>
    ELSE <<p>>

\* lines 94-98: the value reported for a module without __version__
path_value(p, f) ==
    IF f THEN <<p>>
    ELSE IF ~startswith(p, <<"<">>) THEN <<join(Ellipsis, basename(p))>>
    ELSE <<>>

\* version with the path looked at before __version__
version_path_first(st, name, module, roots, f) ==
    LET p   == path_of(module, roots)
        st1 == IF p # <<>> /\ startswith(p[1], <<"/">>)
               THEN [st EXCEPT !.paths = @ \cup {<<name, p[1]>>}]
               ELSE st
    IN  IF p # <<>> /\ ~startswith(p[1], StdlibToken) /\ path_value(p[1], f) # <<>>
        THEN [st1 EXCEPT !.versions = Put(@, name, path_value(p[1], f)[1])]
        ELSE IF module.version # <<>>
        THEN [st1 EXCEPT !.versions = Put(@, name, module.version[1])]
        ELSE IF p = <<>>
        THEN [st1 EXCEPT !.namespaces = @ \cup {name}]
        ELSE st1

\* version without the test that leaves standard-library modules out
version_stdlib_reported(st, name, module, roots, f) ==
    LET p   == path_of(module, roots)
        st1 == IF p # <<>> /\ startswith(p[1], <<"/">>)
               THEN [st EXCEPT !.paths = @ \cup {<<name, p[1]>>}]
               ELSE st
    IN  IF module.version # <<>>
        THEN [st1 EXCEPT !.versions = Put(@, name, module.version[1])]
        ELSE IF p = <<>>
        THEN [st1 EXCEPT !.namespaces = @ \cup {name}]
        ELSE IF path_value(p[1], f) # <<>>
        THEN [st1 EXCEPT !.versions = Put(@, name, path_value(p[1], f)[1])]
        ELSE st1

\* lines 67-106.  st = [versions, namespaces, paths].  Lines 100-106 are
\* reached only when path is neither None nor a str, which a module's
\* __file__ never is.
version(st, name, module, roots, f) ==
    LET p   == path_of(module, roots)
        st1 == IF p # <<>> /\ startswith(p[1], <<"/">>)
               THEN [st EXCEPT !.paths = @ \cup {<<name, p[1]>>}]
               ELSE st
    IN  IF module.version # <<>>
        THEN [st1 EXCEPT !.versions = Put(@, name, module.version[1])]
        ELSE IF p = <<>>
        THEN [st1 EXCEPT !.namespaces = @ \cup {name}]
        ELSE IF startswith(p[1], StdlibToken)
        THEN st1
        ELSE IF path_value(p[1], f) # <<>>
        THEN [st1 EXCEPT !.versions = Put(@, name, path_value(p[1], f)[1])]
        ELSE st1

(***************************************************************************)
(* module_versions                                                         *)
(***************************************************************************)
\* The module names of the model, in the order sorted() gives them
ModuleOrder ==
    << <<"anemoi", ".", "utils", ".", "checkpoint">>, <<"git">>, <<"hashlib">>, <<"m">>, <<"n">>, <<"ns">>,
       <<"ns", ".", "sub">>, <<"ns", ".", "sub", ".", "deep">>,
       <<"nvsmi">>, <<"platform">>, <<"sys">>, <<"sys", ".", "sub">> >>

ModuleNames == {ModuleOrder[i] : i \in 1..Len(ModuleOrder)}

\* sorted(sys.modules.items()), keys only
sorted_modules(loaded) == SelectSeq(ModuleOrder, LAMBDA k : k \in loaded)

\* lines 124-126
RECURSIVE first_pass(_, _, _, _, _)
first_pass(items, st, mods, roots, f) ==
    IF items = <<>> THEN st
    ELSE LET k == Head(items)
         IN  first_pass(Tail(items),
                        IF \A i \in 1..Len(k) : k[i] # "."
                        THEN version(st, k, mods[k], roots, f)
                        ELSE st,
                        mods, roots, f)

\* lines 129-132
RECURSIVE second_pass(_, _, _, _, _)
second_pass(items, st, mods, roots, f) ==
    IF items = <<>> THEN st
    ELSE LET k    == Head(items)
             bits == split(k)
         IN  second_pass(Tail(items),
                         IF Len(bits) = 2 /\ bits[1] \in st.namespaces
                         THEN version(st, k, mods[k], roots, f)
                         ELSE st,
                         mods, roots, f)

\* lines 109-132: [versions, namespaces, paths] before check_for_git
module_versions(f, loaded, mods, get_paths) ==
    LET roots == roots_of(get_paths)
        items == sorted_modules(loaded)
        st0   == [versions |-> <<>>, namespaces |-> {}, paths |-> {}]
    IN  second_pass(items, first_pass(items, st0, mods, roots, f),
                    mods, roots, f)

(***************************************************************************)
(* The file system and GitPython                                           *)
(***************************************************************************)
\* the directory a path names: repeated and trailing separators dropped
RECURSIVE canon(_)
canon(p) ==
    IF Len(p) <= 1 THEN p
    ELSE IF p[1] = "/" /\ p[2] = "/" THEN canon(Tail(p))
    ELSE IF Len(p) = 2 /\ p[2] = "/" THEN <<p[1]>>
    ELSE <<p[1]>> \o canon(Tail(p))

\* the regular files behind the module objects
module_files ==
    {canon(modules[k].file[1]) : k \in {n \in ModuleNames : modules[n].file # <<>>}}

\* os.path.exists: a path in which a root was replaced by its token names
\* nothing on disk
exists(p) ==
    /\ p \notin fs_missing
    /\ \A i \in 1..Len(p) : p[i] \notin {"<", ">"}

\* git.Repo(p), the outcome of the constructor: NoSuchPathError for a path
\* that does not exist, a Repo for the root directory of a repository, and
\* InvalidGitRepositoryError for anything else (a file, a plain directory)
Repo(p) ==
    IF ~exists(p) THEN "NoSuchPathError"
    ELSE IF canon(p) \in DOMAIN fs_repos /\ canon(p) \notin module_files THEN "Repo"
    ELSE "InvalidGitRepositoryError"

FileOrder == <<"a.py", "b.py", "c.py">>
sorted_files(xs) ==
    SelectSeq(FileOrder, LAMBDA x : \E i \in 1..Len(xs) : xs[i] = x)

\* what the repository rooted at root holds
hexsha(root) == <<"sha1">> \o root
index_diff == <<"b.py", "a.py">>
untracked_files == <<"c.py">>
remotes == <<"origin-url">>

\* lines 41-59: the record of one component
git_record(f, p, root) ==
    IF ~f
    THEN [git |-> [sha1 |-> hexsha(root),
                   modified_files |-> Len(index_diff),
                   untracked_files |-> Len(untracked_files)]]
    ELSE [path |-> p,
          git |-> [sha1 |-> hexsha(root),
                   remotes |-> remotes,
                   modified_files |-> sorted_files(index_diff),
                   untracked_files |-> sorted_files(untracked_files)]]

(***************************************************************************)
(* Report assembly                                                         *)
(***************************************************************************)
python_version == <<"3", ".", "11", ".", "6">>
executable == <<"/", "a", "/", "python">>
argv == << <<"train">> >>
python_path == << <<"/", "a">> >>
platform_facts == [system |-> "Linux"]
NvidiaSmiNotFound == "nvdia-smi not found"

\* the bytes and the other two timestamps of an asset file
asset_bytes == <<"x", "y", "z">>
st_mtime == 0
st_ctime == 0

\* datetime.fromtimestamp(t).isoformat()
isoformat(t) == <<"iso", t>>

\* path_md5, lines 173-180
path_md5(p) == <<"md5">> \o asset_bytes

\* peek of .checkpoint: the summary of an asset, None as <<>> when the
\* import or the call raises
peek(p) == IF fs_peek = "ok" THEN <<<<"peek">> \o p>> ELSE <<>>

\* lines 187-207: the value of one path, str(e) when os.stat raises
asset_record(p) ==
    IF p \in fs_missing
    THEN <<"[Errno 2] No such file or directory: ">> \o p
    ELSE LET r == [size |-> Len(asset_bytes),
                   atime |-> isoformat(fs_atime[p]),
                   mtime |-> isoformat(st_mtime),
                   ctime |-> isoformat(st_ctime),
                   md5 |-> path_md5(p)]
         IN  IF peek(p) # <<>>
             THEN [k \in DOMAIN r \cup {"peek"} |->
                       IF k = "peek" THEN peek(p)[1] ELSE r[k]]
             ELSE r

\* lines 183-209
assets_info(ps) == [p \in {ps[i] : i \in 1..Len(ps)} |-> asset_record(p)]

\* the asset files path_md5 reads
fingerprinted(ps) == {p \in {ps[i] : i \in 1..Len(ps)} : p \notin fs_missing}

\* lines 217-236
report(f, ps, now, get_paths, vs, gvs) ==
    IF ~f
    THEN [time |-> now,
          python |-> python_version,
          module_versions |-> vs,
          git_versions |-> gvs]
    ELSE [time |-> now,
          executable |-> executable,
          args |-> argv,
          python_path |-> python_path,
          config_paths |-> get_paths,
          module_versions |-> vs,
          git_versions |-> gvs,
          platform |-> platform_facts,
          gpus |-> NvidiaSmiNotFound,
          assets |-> assets_info(ps)]

\* the modules the function-level imports of each probe add to sys.modules
git_imports == {<<"git">>}
platform_imports == {<<"platform">>}
gpu_imports == {<<"nvsmi">>}
hash_imports == {<<"hashlib">>}
checkpoint_imports == {<<"anemoi", ".", "utils", ".", "checkpoint">>}

\* the modules a FULL report's probes load (lines 233-235)
full_imports(ps) ==
    platform_imports \cup gpu_imports
    \cup (IF fingerprinted(ps) # {} THEN hash_imports ELSE {})
    \cup (IF fingerprinted(ps) # {} /\ fs_peek # "unavailable"
          THEN checkpoint_imports ELSE {})

(***************************************************************************)
(* Actions                                                                 *)
(***************************************************************************)
env == <<modules, config_paths, fs_repos, fs_missing, fs_peek>>

\* lines 212-215 and 109-134: the call, the two passes, entry of check_for_git
gather_provenance_info(f, a) ==
    /\ pc = "idle"
    /\ calls_left > 0
    /\ LET st == module_versions(f, sys_modules, modules, config_paths)
       IN  /\ versions' = st.versions
           /\ namespaces' = st.namespaces
           /\ paths' = st.paths
           /\ todo' = st.paths
    /\ snapshot' = sys_modules
    /\ full' = f
    /\ assets' = a
    /\ git_versions' = <<>>
    /\ calls_left' = calls_left - 1
    /\ pc' = "check_for_git"
    /\ UNCHANGED <<env, fs_atime, sys_modules, clock, cand, path, iters, repo, log>>

\* lines 34-35 and 19-21: the next pair, entry of lookup_git_repo
check_for_git ==
    /\ pc = "check_for_git"
    /\ \E c \in todo :
           /\ cand' = c
           /\ todo' = todo \ {c}
           /\ path' = c[2]
    /\ iters' = 0
    /\ sys_modules' = sys_modules \cup git_imports
    /\ pc' = "lookup_git_repo"
    /\ UNCHANGED <<env, fs_atime, clock, calls_left, full, assets, versions, namespaces,
                   paths, snapshot, repo, git_versions, log>>

\* lines 23-29 and 36-37: one test of the while condition and its body
lookup_git_repo ==
    /\ pc = "lookup_git_repo"
    /\ IF path = <<"/">>
       THEN /\ pc' = "check_for_git"
            /\ UNCHANGED <<path, iters, repo>>
       ELSE /\ iters < MaxIters
            /\ iters' = iters + 1
            /\ CASE Repo(path) = "Repo" ->
                        /\ repo' = path
                        /\ pc' = "repo"
                        /\ UNCHANGED path
                 [] Repo(path) = "InvalidGitRepositoryError" ->
                        /\ path' = dirname(path)
                        /\ UNCHANGED <<pc, repo>>
                 [] OTHER ->
                        /\ pc' = "raised"
                        /\ UNCHANGED <<path, repo>>
    /\ UNCHANGED <<env, fs_atime, sys_modules, clock, calls_left, full, assets, versions,
                   namespaces, paths, snapshot, todo, cand, git_versions, log>>

\* lines 39-62: the state of the repository found is read
read_repo ==
    /\ pc = "repo"
    /\ CASE fs_repos[canon(repo)] = "ok" ->
                /\ git_versions' = Put(git_versions, cand[1],
                                       git_record(full, cand[2], canon(repo)))
                /\ pc' = "check_for_git"
         [] fs_repos[canon(repo)] = "ValueError" ->
                /\ pc' = "check_for_git"
                /\ UNCHANGED git_versions
         [] OTHER ->
                /\ pc' = "raised"
                /\ UNCHANGED git_versions
    /\ UNCHANGED <<env, fs_atime, sys_modules, clock, calls_left, full, assets, versions,
                   namespaces, paths, snapshot, todo, cand, path, iters, repo, log>>

\* lines 64, 136 and 217-236: check_for_git is done, the report is returned
gather_return ==
    /\ pc = "check_for_git"
    /\ todo = {}
    /\ log' = Append(log, [full |-> full, assets |-> assets,
                           value |-> report(full, assets, clock, config_paths,
                                            versions, git_versions)])
    /\ sys_modules' = IF full THEN sys_modules \cup full_imports(assets)
                      ELSE sys_modules
    /\ clock' = clock + 1
    \* reading a file may move its access time (mount options decide)
    /\ IF full
       THEN \E T \in SUBSET fingerprinted(assets) :
                fs_atime' = [p \in DOMAIN fs_atime |->
                                 IF p \in T THEN clock ELSE fs_atime[p]]
       ELSE UNCHANGED fs_atime
    /\ pc' = "idle"
    /\ UNCHANGED <<env, calls_left, full, assets, versions, namespaces, paths,
                   snapshot, todo, cand, path, iters, repo, git_versions>>

(***************************************************************************)
(* Initial states: the process and its environment before the first call   *)
(***************************************************************************)
PathChars == {"/", "a", "b"}
Strings(n) == UNION {[1..k -> PathChars] : k \in 1..n}

\* a __file__ names a file: it does not end with the separator
FileNames(n) == {p \in Strings(n) : p[Len(p)] # "/"}

Module(hf, file, v) == [has_file |-> hf, file |-> file, version |-> v]
V1 == <<"1", ".", "0">>

\* a module without __file__, one whose __file__ is None, one with a file
NoFile == Module(FALSE, <<>>, <<>>)
NoneFile == Module(TRUE, <<>>, <<>>)
AtFile(p) == Module(TRUE, <<p>>, <<>>)
Versioned(m) == [m EXCEPT !.version = <<V1>>]

RootDirs == {<<"/", "a">>, <<"/", "a", "/", "b">>}
RootConfigs ==
    {<< <<"stdlib", s>>, <<"purelib", p>>, <<"data", d>> >> :
        s \in RootDirs, p \in RootDirs, d \in RootDirs}

\* stdlib below purelib and data, which share a directory
Roots0 ==
    << <<"stdlib", <<"/", "a", "/", "b">> >>,
       <<"purelib", <<"/", "a">> >>,
       <<"data", <<"/", "a">> >> >>

\* platform.__version__ of CPython 3.11
platform_version == <<"1", ".", "0", ".", "8">>

\* the modules the probes import lazily, as installed
LibModules ==
    (<<"git">> :> Versioned(AtFile(<<"/", "a", "/", "g">>)))
    @@ (<<"nvsmi">> :> AtFile(<<"/", "a", "/", "v">>))
    @@ (<<"platform">> :>
            [AtFile(<<"/", "a", "/", "b", "/", "p">>) EXCEPT !.version = <<platform_version>>])
    @@ (<<"anemoi", ".", "utils", ".", "checkpoint">> :> AtFile(<<"/", "a", "/", "c">>))
    @@ (<<"hashlib">> :> AtFile(<<"/", "a", "/", "b", "/", "h">>))

\* the other modules, as the slices that do not vary them see them
UserModules ==
    (<<"m">> :> AtFile(<<"/", "b", "/", "m">>))
    @@ (<<"n">> :> AtFile(<<"/", "a", "/", "n">>))
    @@ (<<"ns">> :> NoneFile)
    @@ (<<"ns", ".", "sub">> :> Versioned(NoFile))
    @@ (<<"ns", ".", "sub", ".", "deep">> :> Versioned(NoFile))
    @@ (<<"sys">> :> NoFile)
    @@ (<<"sys", ".", "sub">> :> Versioned(NoFile))

builtin_module_names == {<<"sys">>}

AssetFile == <<"/", "b", "/", "w">>
AssetArgs == {<<>>, <<AssetFile>>}

InitProcess ==
    /\ clock = 1
    /\ fs_atime = (AssetFile :> 0)
    /\ pc = "idle"
    /\ full = FALSE
    /\ assets = <<>>
    /\ versions = <<>>
    /\ namespaces = {}
    /\ paths = {}
    /\ snapshot = {}
    /\ todo = {}
    /\ cand = <<>>
    /\ path = <<>>
    /\ iters = 0
    /\ repo = <<>>
    /\ git_versions = <<>>
    /\ log = <<>>

\* one module with any __file__ and any install roots
InitPaths ==
    /\ sys_modules = {<<"m">>}
    /\ \E hf \in BOOLEAN, v \in {<<>>, <<V1>>},
          file \in {<<>>} \cup {<<p>> : p \in FileNames(MaxLen)} :
           /\ hf \/ file = <<>>
           /\ modules = (<<"m">> :> Module(hf, file, v)) @@ UserModules @@ LibModules
    /\ config_paths \in RootConfigs
    /\ fs_repos = (<<"/", "b">> :> "ok")
    /\ fs_missing = {}
    /\ fs_peek = "unavailable"
    /\ calls_left = 1

\* any registry of top-level, dotted and built-in modules
InitRegistry ==
    /\ \E S \in SUBSET {<<"ns">>, <<"ns", ".", "sub">>, <<"sys">>, <<"sys", ".", "sub">>} :
           sys_modules = {<<"m">>, <<"n">>, <<"ns", ".", "sub", ".", "deep">>} \cup S
    /\ \E ns \in {NoFile, NoneFile, Versioned(NoneFile), AtFile(<<"/", "b", "/", "b", "/", "x">>)},
          sub \in {Versioned(NoFile), AtFile(<<"/", "b", "/", "b", "/", "s">>),
                   AtFile(<<"/", "a", "/", "b", "/", "s">>), NoneFile},
          sys \in {NoFile, Versioned(NoFile)} :
           modules = (<<"ns">> :> ns) @@ (<<"ns", ".", "sub">> :> sub)
                     @@ (<<"sys">> :> sys) @@ UserModules @@ LibModules
    /\ config_paths = Roots0
    /\ fs_repos = (<<"/", "b">> :> "ok")
    /\ fs_missing = {}
    /\ fs_peek = "unavailable"
    /\ calls_left = 1

RepoDirs == {<<"/", "b">>, <<"/", "b", "/", "b">>}
Outcomes == {"ok", "ValueError", "GitCommandError"}

\* two development checkouts and any state of the repositories around them
InitRepos ==
    /\ sys_modules = {<<"m">>, <<"n">>}
    /\ \E fm \in {<<"/", "/", "b", "/", "m">>, <<"/", "b", "/", "c", "/", "m">>},
          fn \in {<<"/", "b", "/", "b", "/", "n">>, <<"/", "a", "/", "n">>} :
           /\ modules = (<<"m">> :> AtFile(fm)) @@ (<<"n">> :> AtFile(fn))
                        @@ UserModules @@ LibModules
           /\ \/ fs_missing = {} /\ fs_peek \in {"unavailable", "raises", "ok"}
              \/ fs_missing \in {{fm}, {AssetFile}} /\ fs_peek = "unavailable"
    /\ config_paths = Roots0
    /\ \E D \in SUBSET RepoDirs :
           /\ fs_repos \in [D -> Outcomes]
           /\ \A d \in D : d # <<"/", "b">> => fs_repos[d] = "ok"
    /\ calls_left = MaxCalls

\* The inputs are drawn in three families, each varying what one part of the
\* code reads (version, module_versions, check_for_git) around a fixed rest.
Init ==
    /\ InitProcess
    /\ \/ InitPaths
       \/ InitRegistry
       \/ InitRepos

Next ==
    \/ \E f \in BOOLEAN, a \in AssetArgs : gather_provenance_info(f, a)
    \/ check_for_git
    \/ lookup_git_repo
    \/ read_repo
    \/ gather_return

Spec == Init /\ [][Next]_vars

(***************************************************************************)
(* Properties                                                              *)
(***************************************************************************)
toplevel(k) == \A i \in 1..Len(k) : k[i] # "."

\* the names the two passes handed to version
Considered ==
    {k \in snapshot : toplevel(k) \/ (Len(split(k)) = 2 /\ split(k)[1] \in namespaces)}

\* module_versions has run in the current state
Enumerated == pc # "idle" \/ log # <<>>

\* the normalized path of a module, None as <<>>
NormPath(k) == path_of(modules[k], roots_of(config_paths))

HasVersion(k) == modules[k].version # <<>>
UnderStdlib(k) == NormPath(k) # <<>> /\ startswith(NormPath(k)[1], StdlibToken)

SummaryKeys == {"time", "python", "module_versions", "git_versions"}
FullOnlyKeys ==
    {"executable", "args", "python_path", "config_paths", "platform", "gpus", "assets"}

\* C1: every FULL report holds the SUMMARY fields (time, runtime version,
\* module_versions, git_versions) and the seven FULL-only fields, so its key
\* set includes the key set of every SUMMARY report.
C1_FullReportSupersetOfSummary ==
    \A i \in 1..Len(log) :
        log[i].full =>
            /\ SummaryKeys \cup FullOnlyKeys \subseteq DOMAIN log[i].value
            /\ \A j \in 1..Len(log) :
                   ~log[j].full => DOMAIN log[j].value \subseteq DOMAIN log[i].value

\* C2: a considered module that has __version__ is reported with exactly that
\* value, in both modes and whatever its path is.
C2_VersionEmittedExactly ==
    \A k \in Considered :
        HasVersion(k) => k \in DOMAIN versions /\ versions[k] = modules[k].version[1]

C2_Witness ==
    /\ Enumerated
    /\ \E k \in Considered :
           HasVersion(k) /\ UnderStdlib(k) /\ versions[k] = modules[k].version[1]

\* C3 as claimed: a loaded module whose normalized path begins with the
\* standard-library token has no entry in module_versions.
C3_StdlibNeverListed ==
    \A k \in snapshot : UnderStdlib(k) => k \notin DOMAIN versions

\* C3 as amended: a loaded module without __version__ whose normalized path
\* begins with the standard-library token has no entry in module_versions.
C3_UnversionedStdlibNeverListed ==
    \A k \in snapshot : UnderStdlib(k) /\ ~HasVersion(k) => k \notin DOMAIN versions

C3_Witness ==
    /\ Enumerated
    /\ full
    /\ \E k \in Considered : UnderStdlib(k) /\ ~HasVersion(k)

elided(p) == <<".", ".", ".", "/">> \o basename(p)

\* the considered modules that reach lines 94-98
PathOnly ==
    {k \in Considered : ~HasVersion(k) /\ NormPath(k) # <<>> /\ ~UnderStdlib(k)}

\* C4 as claimed: a considered module without __version__ whose path is not
\* under the standard library gets a value: in FULL mode the normalized path,
\* in SUMMARY mode the elided form of a raw absolute path and the path itself
\* when it starts with a root token.
C4_PathValue ==
    \A k \in PathOnly :
        LET p == NormPath(k)[1]
        IN  /\ k \in DOMAIN versions
            /\ full => versions[k] = p
            /\ ~full /\ startswith(p, <<"/">>) => versions[k] = elided(p)
            /\ ~full /\ startswith(p, <<"<">>) => versions[k] = p

\* C4 as amended: in FULL mode the value is the normalized path; in SUMMARY
\* mode a path that starts with a root token gets no entry at all, and any
\* other path gets the elided form.
C4_PathValueTokenOmitted ==
    \A k \in PathOnly :
        LET p == NormPath(k)[1]
        IN  /\ full => k \in DOMAIN versions /\ versions[k] = p
            /\ ~full /\ startswith(p, <<"<">>) => k \notin DOMAIN versions
            /\ ~full /\ ~startswith(p, <<"<">>) =>
                   k \in DOMAIN versions /\ versions[k] = elided(p)

C4_Witness ==
    /\ Enumerated
    /\ ~full
    /\ \E k \in PathOnly : startswith(NormPath(k)[1], <<"<">>)
    /\ \E k \in PathOnly : startswith(NormPath(k)[1], <<"/">>)

without_time(r) == [k \in DOMAIN r \ {"time"} |-> r[k]]

\* C5: two FULL calls in a row with the same arguments return reports that
\* differ in the time field only.
C5_RepeatedFullReportsAgree ==
    \A i \in 1..(Len(log) - 1) :
        log[i].full /\ log[i + 1].full /\ log[i].assets = log[i + 1].assets =>
            without_time(log[i].value) = without_time(log[i + 1].value)

\* C6: no failure met while a repository is located or read leaves
\* gather_provenance_info as an exception.
C6_RepoFailureNeverPropagates == pc # "raised"

\* C7: normalization replaces the longest root that is a prefix of the path
\* by its token and nothing else; a path under no root is returned unchanged.
C7_LongestRootPrefixReplaced ==
    \A k \in snapshot :
        NormPath(k) # <<>> =>
            LET p   == modules[k].file[1]
                R   == roots_of(config_paths)
                pre == {i \in 1..Len(R) : startswith(p, R[i][1])}
                i   == CHOOSE x \in pre : \A y \in pre : Len(R[x][1]) >= Len(R[y][1])
            IN  NormPath(k)[1] =
                    IF pre = {} THEN p
                    ELSE <<"<", R[i][2], ">">> \o Drop(p, Len(R[i][1]))

\* C8: every iteration of the ascent that does not leave the loop moves to a
\* strictly shorter path.
C8_AscentStrictlyShortens ==
    [][pc = "lookup_git_repo" /\ pc' = "lookup_git_repo" => Len(path') < Len(path)]_vars

namespace_only(k) ==
    /\ ~HasVersion(k)
    /\ NormPath(k) = <<>>
    /\ k \notin builtin_module_names

\* C9: a classified name is top-level, or a depth-2 name whose first segment
\* is a loaded top-level module without version and path that is no builtin.
C9_ClassifiedNamesAllowed ==
    \A k \in DOMAIN versions \cup {c[1] : c \in paths} :
        \/ toplevel(k)
        \/ /\ Len(split(k)) = 2
           /\ split(k)[1] \in snapshot
           /\ namespace_only(split(k)[1])

\* C10: in FULL mode the path of a repository record is the root directory of
\* the repository found, not the path the ascent started from.
C10_RecordPathIsRepoRoot ==
    full =>
        \A k \in DOMAIN git_versions :
            /\ git_versions[k].path \in DOMAIN fs_repos
            /\ \A c \in paths : c[1] = k => git_versions[k].path # c[2]

====
